---- MODULE Spec2Model ----
(***************************************************************************)
(* vrunas: run a program under another uid/gid, with optional priority,    *)
(* stdout/stderr redirection, output/input files and timing (fork + wait). *)
(* Model of src/vrunas.c: the two option passes, set_redirections,         *)
(* set_uidgid, set_out, set_in, do_bench, build_argv/execvp and clean_ctx. *)
(*                                                                         *)
(* The launcher is process "P".  With -t/-T it forks: "P" becomes the      *)
(* supervisor and "C" the child that goes on to execvp the program.        *)
(* Descriptor tables map a descriptor number to what it refers to.         *)
(* fprintf is modelled as an immediate write to whatever the stream's      *)
(* descriptor refers to at that moment (streams are not buffered).         *)
(* The command line is revealed option by option while the first pass      *)
(* scans it; the options the second pass acts on are kept in rest.         *)
(***************************************************************************)
EXTENDS Integers, Sequences, FiniteSets, TLC

\* ---------------------------------------------------------------- bounds
MaxArgs == 3          \* option words on the command line
MaxProg == 2          \* program words (program + its arguments)
MaxFd   == 6          \* descriptor numbers 0..MaxFd
MaxSignals == 1       \* signals delivered to the supervisor
MaxSigArgs == 1       \* option words of the launches that signals are sent to
MaxTime == 8          \* values 1..MaxTime of the monotonic clock
MaxSeen == 4          \* options given to the first pass alone
MaxArgc == 4          \* words given to build_argv
MaxIdLen == 3         \* characters of the argument of -u, -g, -U, -G
UidBits == 4          \* width of uid_t and gid_t (32 on the usual platforms)
LongBits == 6         \* width of long (64 on the usual platforms)

\* ------------------------------------------------------ program constants
OK               == 0
ERR_PROG_MISSING == 1
ERR_SETID        == 2
ERR_BUILDARGV    == 4
ERR_EXEC         == 5
ERR_REDIR        == 6
ERR_SETOUT       == 7
ERR_BENCH        == 8
ERR_SETIN        == 9
ERR_PRIORITY     == 10
ERR_OPTION       == 30

STDIN_FILENO  == 0
STDOUT_FILENO == 1
STDERR_FILENO == 2

\* signal numbers of <signal.h>
SIGHUP  == 1
SIGINT  == 2
SIGQUIT == 3
SIGUSR1 == 10
SIGUSR2 == 12
SIGPIPE == 13
SIGTERM == 15

\* do_bench, line 352: the signals the supervisor forwards to its child
sigs == <<SIGINT, SIGHUP, SIGTERM, SIGQUIT, SIGUSR1, SIGUSR2, SIGPIPE>>

\* enum FLAGS, as a set of flag names
Flags == {"HAVE_UID", "HAVE_GID", "OPTIONAL_ARGS", "TO_STDOUT", "TO_STDERR",
          "OUT_APPEND", "TIME_POSIX", "TIME_EXT", "WARN_MOREREDIRS",
          "FILE_NEWIDENTITY", "HAVE_PRIORITY"}

\* s_opt_desc: the options of the launcher that reach the core, with the kind
\* of their argument: "-" none, "file" a path, "ok" a value that parses or
\* resolves, "bad" one that does not.
FirstPassOpts == {[o |-> x, a |-> "-"] : x \in {"t", "T", "1", "2"}}

SecondPassOpts ==
    {[o |-> "N", a |-> "-"]}
    \cup {[o |-> x, a |-> "file"] : x \in {"o", "O", "i"}}
    \cup {[o |-> x, a |-> k] : x \in {"p", "u", "g", "U", "G"}, k \in {"ok", "bad"}}

s_opt_desc == FirstPassOpts \cup SecondPassOpts

\* what a descriptor can refer to: the three destinations the launcher was
\* started with, the -o/-O file, the -i file, or nothing
Closed == "closed"
Dests  == {"in0", "out0", "err0", "outfile", "infile"}
FDs    == 0..MaxFd

Procs == {"P", "C"}

\* the calls whose order and number the launch sequence fixes
Events == {"set_redirections", "setpriority", "set_uidgid", "setgid", "setuid",
           "set_out", "set_in", "open_out", "open_in", "do_bench", "fork",
           "build_argv", "execvp"}

\* exit codes and terminating signals of the launched program
ProgExitCodes == {0, 7}
ProgSignals   == {2, 9, 15}

VARIABLES
    cmdline,         \* [opts, prog]: option words and program words of argv
    nread,           \* option words the first pass has scanned
    rest,            \* scanned options still to be visited by the second pass
    flags,           \* ctx.flags
    outfile,         \* ctx.outfile != NULL
    infile,          \* ctx.infile != NULL
    i_argv_program,  \* ctx.i_argv_program
    ctx,             \* per process: alternatefile (its fd, -1 = NULL), outfd, infd
    fdt,             \* per process: descriptor table
    pc,              \* per process: position in main / do_bench
    ret,             \* per process: value given to exit / returned by main
    status,          \* wait status the supervisor got from waitpid
    calls,           \* per process: how often each call of Events was made
    failed,          \* calls that returned an error
    wrote,           \* what the launcher processes wrote: [by, dest, what]
    redir,           \* <<return value of set_redirections>>, <<>> before it returns
    sig,             \* supervisor: handlers (entries of sigs whose handler is
                     \* installed), got (signals delivered to it), sent (signals
                     \* it sent to the child with kill), pid (the static pid of
                     \* sig_handler), reg (line 356 was passed), kills (every
                     \* call of kill: pid, sig, reaped)
    clk,             \* do_bench's clock: at (idle, started, stopped), now (the
                     \* monotonic clock), ts0, ts1
    idr,             \* one identity option of parse_option: opt, arg, at (arg,
                     \* done), and once done: ok, id, lookup (a name lookup
                     \* was made)
    seen,            \* the letters of the options parse_option_first_pass
                     \* was called with, in their order
    av               \* one call of build_argv: argv, ptr (the size of a
                     \* pointer), at (args, built), and once built: alloc,
                     \* used (bytes), vec

\* the variables the launch sequence itself leaves alone
aux == <<clk, idr, seen, av>>

\* the variables of the launch sequence
launch == <<cmdline, nread, rest, flags, outfile, infile, i_argv_program, ctx,
            fdt, pc, ret, status, calls, failed, wrote, redir, sig>>

vars == <<cmdline, nread, rest, flags, outfile, infile, i_argv_program, ctx, fdt,
          pc, ret, status, calls, failed, wrote, redir, sig, clk, idr, seen, av>>

NoStatus == [kind |-> "none", val |-> 0]

\* ---------------------------------------------------------------- helpers
Bench(fl) == fl \cap {"TIME_POSIX", "TIME_EXT"} # {}

\* lowest unused descriptor, as dup() and open() return it; -1 when none is left
LowestFree(t) ==
    IF \E f \in FDs : t[f] = Closed
    THEN CHOOSE f \in FDs : t[f] = Closed /\ \A g \in FDs : g < f => t[g] # Closed
    ELSE -1

\* close(fd)
CloseFd(t, fd) == IF fd \in FDs THEN [t EXCEPT ![fd] = Closed] ELSE t

\* dup2(from, to)
Dup2(t, from, to) == [t EXCEPT ![to] = t[from]]

\* fprintf(stream, ...) by process p with descriptor table t
Write(p, t, fd, what) ==
    IF t[fd] = Closed THEN {} ELSE {[by |-> p, dest |-> t[fd], what |-> what]}

Called(p, evs) == [calls EXCEPT ![p] = [e \in Events |->
                      IF e \in evs THEN calls[p][e] + 1 ELSE calls[p][e]]]


\* ------------------------------------------------------------- clean_ctx
\* closes the backup stream, the output file and the input file it knows of
clean_ctx(c, t) ==
    LET t1 == IF c.alternatefile # -1 THEN CloseFd(t, c.alternatefile) ELSE t
        t2 == IF c.outfd >= 0 THEN CloseFd(t1, c.outfd) ELSE t1
        t3 == IF c.infd >= 0 THEN CloseFd(t2, c.infd) ELSE t2
    IN [ctx |-> [alternatefile |-> -1, outfd |-> -1, infd |-> -1], fdt |-> t3]

\* exit(clean_ctx(code, ctx)) / return clean_ctx(code, &ctx) by process p
ExitWith(p, code, c, t) ==
    /\ pc'  = [pc  EXCEPT ![p] = "exited"]
    /\ ret' = [ret EXCEPT ![p] = code]
    /\ ctx' = [ctx EXCEPT ![p] = clean_ctx(c, t).ctx]
    /\ fdt' = [fdt EXCEPT ![p] = clean_ctx(c, t).fdt]

\* process p goes on at label l with context c and descriptor table t
Goto(p, l, c, t) ==
    /\ pc'  = [pc  EXCEPT ![p] = l]
    /\ ctx' = [ctx EXCEPT ![p] = c]
    /\ fdt' = [fdt EXCEPT ![p] = t]
    /\ ret' = ret

\* vlib/options.h: OPT_EXIT_CODE(OPT_ERROR(code)), the exit code of a launch
\* whose option handling ended with OPT_ERROR(code)
OPT_EXIT_CODE(code) == code

\* vlib/options.h: opt_usage(OPT_ERROR(code), ...), as main returns it
opt_usage(code) == code

\* main's argc: the launcher's name, the option words, the program words
argc == 1 + cmdline.opts + cmdline.prog

\* ------------------------------------------------------ set_redirections
\* benchmarking without -1/-2 rewiring stdout instead of stderr
RedirectedFd_benchStdout(fl) ==
    IF "TO_STDERR" \in fl \/ (Bench(fl) /\ "TO_STDOUT" \notin fl) THEN STDOUT_FILENO
    ELSE IF "TO_STDOUT" \in fl THEN STDERR_FILENO
    ELSE -1

\* the stream that is rewired, -1 for none
RedirectedFd(fl) ==
    IF "TO_STDERR" \in fl THEN STDOUT_FILENO
    ELSE IF "TO_STDOUT" \in fl \/ Bench(fl) THEN STDERR_FILENO
    ELSE -1

\* the stream whose destination it is rewired to
DupFd(fl) == IF "TO_STDERR" \in fl THEN STDERR_FILENO ELSE STDOUT_FILENO

\* the calls of set_redirections that can fail
RedirFailures(fl) ==
    IF RedirectedFd(fl) >= 0 THEN {"none", "dup", "dup2", "fdopen"} ELSE {"none"}

\* set_redirections taking the backup after the dup2 instead of before it
set_redirections_dup2First(t, fl, fail) ==
    LET redirectedfd == RedirectedFd(fl)
        dupfd    == DupFd(fl)
        t1 == Dup2(t, dupfd, redirectedfd)
        backupfd == LowestFree(t1)
        t2 == [t1 EXCEPT ![backupfd] = t1[redirectedfd]]
    IN IF redirectedfd < 0
       THEN [ret |-> 0, fdt |-> t, alternatefile |-> -1]
       ELSE IF fail = "dup2" \/ t[dupfd] = Closed
       THEN [ret |-> -2, fdt |-> t, alternatefile |-> -1]
       ELSE IF fail = "dup" \/ backupfd < 0
       THEN [ret |-> -1, fdt |-> t1, alternatefile |-> -1]
       ELSE IF fail = "fdopen"
       THEN [ret |-> -3, fdt |-> t2, alternatefile |-> -1]
       ELSE [ret |-> 0, fdt |-> t2, alternatefile |-> backupfd]

\* fail: which call fails.  Result: return value, descriptor table,
\* ctx->alternatefile (descriptor of the backup stream, -1 = NULL)
set_redirections(t, fl, fail) ==
    LET redirectedfd == RedirectedFd(fl)
        dupfd    == DupFd(fl)
        backupfd == LowestFree(t)
        t1 == [t EXCEPT ![backupfd] = t[redirectedfd]]
        t2 == Dup2(t1, dupfd, redirectedfd)
    IN IF redirectedfd < 0
       THEN [ret |-> 0, fdt |-> t, alternatefile |-> -1]
       ELSE IF fail = "dup" \/ backupfd < 0 \/ t[redirectedfd] = Closed
       THEN [ret |-> -1, fdt |-> t, alternatefile |-> -1]
       ELSE IF fail = "dup2" \/ t1[dupfd] = Closed
       THEN [ret |-> -2, fdt |-> t1, alternatefile |-> -1]
       ELSE IF fail = "fdopen"
       THEN [ret |-> -3, fdt |-> t2, alternatefile |-> -1]
       ELSE [ret |-> 0, fdt |-> t2, alternatefile |-> backupfd]

\* the stream the failure of set_redirections is reported on
RedirErrorStream(fl) ==
    IF ~Bench(fl) THEN STDERR_FILENO
    ELSE IF "TO_STDERR" \in fl THEN STDOUT_FILENO ELSE STDERR_FILENO

\* ---------------------------------------------- parse_option_first_pass
\* -1 and -2 setting their flag without clearing the other one
parse_option_first_pass_keep(fl, opt) ==
    CASE opt.o = "t" -> fl \cup {"TIME_POSIX"}
      [] opt.o = "T" -> fl \cup {"TIME_EXT"}
      [] opt.o = "1" -> fl \cup {"TO_STDOUT"}
      [] opt.o = "2" -> fl \cup {"TO_STDERR"}
      [] OTHER -> fl

\* lines 448-461: the flags after the first pass has seen the option
parse_option_first_pass(fl, opt) ==
    CASE opt.o = "t" -> fl \cup {"TIME_POSIX"}
      [] opt.o = "T" -> fl \cup {"TIME_EXT"}
      [] opt.o = "1" ->
            ((IF "TO_STDERR" \in fl THEN fl \cup {"WARN_MOREREDIRS"} ELSE fl)
                \ {"TO_STDERR"}) \cup {"TO_STDOUT"}
      [] opt.o = "2" ->
            ((IF "TO_STDOUT" \in fl THEN fl \cup {"WARN_MOREREDIRS"} ELSE fl)
                \ {"TO_STDOUT"}) \cup {"TO_STDERR"}
      [] OTHER -> fl

\* the first pass warning about conflicting -1/-2 as soon as it sees them
FirstPassOutput_warning(fl, opt) ==
    IF (opt.o = "1" /\ "TO_STDERR" \in fl) \/ (opt.o = "2" /\ "TO_STDOUT" \in fl)
    THEN {[by |-> "P", dest |-> "err0", what |-> "warning"]}
    ELSE {}

\* what parse_option_first_pass prints for an option: the first pass is silent
FirstPassOutput(fl, opt) == {}

\* ------------------------------------------------------------------ Init
\* main, lines 634-643: the launcher before it has looked at its arguments
LaunchInit ==
    /\ cmdline \in [opts : 0..MaxArgs, prog : 0..MaxProg]
    /\ nread = 0
    /\ rest = <<>>
    /\ flags = {}
    /\ outfile = FALSE
    /\ infile = FALSE
    /\ i_argv_program = 0
    /\ ctx = [p \in Procs |-> [alternatefile |-> -1, outfd |-> -1, infd |-> -1]]
    /\ fdt = [p \in Procs |->
                IF p = "P"
                THEN [f \in FDs |-> CASE f = STDIN_FILENO  -> "in0"
                                      [] f = STDOUT_FILENO -> "out0"
                                      [] f = STDERR_FILENO -> "err0"
                                      [] OTHER -> Closed]
                ELSE [f \in FDs |-> Closed]]
    /\ pc = [p \in Procs |-> IF p = "P" THEN "pass1" ELSE "none"]
    /\ ret = [p \in Procs |-> 0]
    /\ status = NoStatus
    /\ calls = [p \in Procs |-> [e \in Events |-> 0]]
    /\ failed = {}
    /\ wrote = {}
    /\ redir = <<>>
    /\ sig = [handlers |-> 0, got |-> {}, sent |-> {}, pid |-> 0, reg |-> FALSE,
              kills |-> {}]

NoClock == [at |-> "idle", now |-> 1, ts0 |-> 0, ts1 |-> 0]

\* no identity option under way
NoId == [opt |-> "", arg |-> <<>>, at |-> "none", ok |-> FALSE, id |-> 0,
         lookup |-> FALSE]

\* no call of build_argv under way
NoArgv == [argv |-> <<>>, ptr |-> 0, at |-> "none", alloc |-> 0, used |-> 0,
           vec |-> <<>>]

Init == LaunchInit /\ clk = NoClock /\ idr = NoId /\ seen = <<>> /\ av = NoArgv

\* ------------------------------------------- first pass over the options
\* one option word scanned by the first pass
FirstPassOption ==
    /\ pc["P"] = "pass1"
    /\ nread < cmdline.opts
    /\ \E opt \in s_opt_desc :
        /\ flags' = parse_option_first_pass(flags, opt)
        /\ rest' = IF opt \in SecondPassOpts THEN Append(rest, opt) ELSE rest
        /\ wrote' = wrote \cup FirstPassOutput(flags, opt)
    /\ nread' = nread + 1
    /\ UNCHANGED <<aux, sig, cmdline, outfile, infile, i_argv_program, ctx, fdt, pc, ret,
                   status, calls, failed, redir>>

\* OPT_ID_END of the first pass: set_redirections is called
FirstPassEnd ==
    /\ pc["P"] = "pass1"
    /\ nread = cmdline.opts
    /\ \E fail \in RedirFailures(flags) :
        LET r == set_redirections(fdt["P"], flags, fail)
            c == [ctx["P"] EXCEPT !.alternatefile = r.alternatefile]
        IN /\ redir' = <<r.ret>>
           /\ calls' = Called("P", {"set_redirections"})
           /\ failed' = IF r.ret # 0 THEN failed \cup {"set_redirections"} ELSE failed
           /\ Goto("P", "redirected", c, r.fdt)
    /\ UNCHANGED <<aux, sig, cmdline, nread, rest, flags, outfile, infile, i_argv_program,
                   status, wrote>>

\* line 474 taking only a failed dup of the backup for a failure
RedirFailed_onlyDup(r) == r = 0 - 1

\* line 474: set_redirections(ctx) != 0
RedirFailed(r) == r # 0

\* lines 474-487: its failure is reported and ends the launch; otherwise the
\* warning about conflicting -1 and -2 is printed
FirstPassReport ==
    /\ pc["P"] = "redirected"
    /\ IF RedirFailed(redir[1])
       THEN /\ wrote' = wrote \cup
                    Write("P", fdt["P"], RedirErrorStream(flags), "diag")
            /\ ExitWith("P", ERR_REDIR, ctx["P"], fdt["P"])
       ELSE /\ wrote' = wrote \cup
                    (IF "WARN_MOREREDIRS" \in flags
                     THEN Write("P", fdt["P"], STDERR_FILENO, "warning")
                     ELSE {})
            /\ Goto("P", "pass2", ctx["P"], fdt["P"])
    /\ UNCHANGED <<aux, sig, cmdline, nread, rest, flags, outfile, infile, i_argv_program,
                   status, calls, failed, redir>>

\* ------------------------------------------ second pass over the options
\* main going on with the launch after an option error
OnOptError_ignored == "continue"

\* line 647: what main does when the option passes end with an error
OnOptError == "return"

\* parse_option returns OPT_ERROR(code) after printing w and the error:
\* main returns clean_ctx(OPT_EXIT_CODE(ret))
OptError(code, w) ==
    /\ wrote' = wrote \cup w \cup Write("P", fdt["P"], STDERR_FILENO, "diag")
    /\ failed' = failed \cup {"parse_option"}
    /\ IF OnOptError = "return"
       THEN ExitWith("P", OPT_EXIT_CODE(code), ctx["P"], fdt["P"])
       ELSE UNCHANGED <<pc, ret, ctx, fdt>>
    /\ UNCHANGED <<flags, outfile, infile>>

\* parse_option returns OPT_CONTINUE with the new flags and files; w is
\* what it printed
OptContinue(fl, out, in, w) ==
    /\ wrote' = wrote \cup w
    /\ flags' = fl
    /\ outfile' = out
    /\ infile' = in
    /\ UNCHANGED <<pc, ret, ctx, fdt, failed>>

parse_option(opt) ==
    LET warning == Write("P", fdt["P"], STDERR_FILENO, "warning")
        id      == Write("P", fdt["P"], STDOUT_FILENO, "id")
        If(b, w) == IF b THEN w ELSE {}
    IN CASE opt.o = "p" ->
              IF opt.a = "bad" THEN OptError(ERR_OPTION + 11, {})
              ELSE OptContinue(flags \cup {"HAVE_PRIORITY"}, outfile, infile,
                               If("HAVE_PRIORITY" \in flags, warning))
         [] opt.o = "i" ->
              OptContinue(flags, outfile, TRUE, If(infile, warning))
         [] opt.o = "N" ->
              OptContinue(flags \cup {"FILE_NEWIDENTITY"}, outfile, infile, {})
         [] opt.o = "o" ->
              OptContinue(flags \ {"OUT_APPEND"}, TRUE, infile, If(outfile, warning))
         [] opt.o = "O" ->
              OptContinue(flags \cup {"OUT_APPEND"}, TRUE, infile, If(outfile, warning))
         [] opt.o = "u" ->
              IF opt.a = "bad"
              THEN OptError(ERR_OPTION + 7, If("HAVE_UID" \in flags, warning))
              ELSE OptContinue(flags \cup {"HAVE_UID"}, outfile, infile,
                               If("HAVE_UID" \in flags, warning))
         [] opt.o = "U" ->
              IF opt.a = "bad" THEN OptError(ERR_OPTION + 5, {})
              ELSE OptContinue(flags \cup {"OPTIONAL_ARGS"}, outfile, infile, id)
         [] opt.o = "g" ->
              IF opt.a = "bad"
              THEN OptError(ERR_OPTION + 3, If("HAVE_GID" \in flags, warning))
              ELSE OptContinue(flags \cup {"HAVE_GID"}, outfile, infile,
                               If("HAVE_GID" \in flags, warning))
         [] opt.o = "G" ->
              IF opt.a = "bad" THEN OptError(ERR_OPTION + 1, {})
              ELSE OptContinue(flags \cup {"OPTIONAL_ARGS"}, outfile, infile, id)
         [] OTHER -> OptContinue(flags, outfile, infile, {})

\* one option visited by the second pass
SecondPassOption ==
    /\ pc["P"] = "pass2"
    /\ rest # <<>>
    /\ parse_option(Head(rest))
    /\ rest' = Tail(rest)
    /\ UNCHANGED <<aux, sig, cmdline, nread, i_argv_program, status, calls, redir>>

\* OPT_ID_ARG of the second pass (the first program word, when there is
\* one), then the end of the options
SecondPassEnd ==
    /\ pc["P"] = "pass2"
    /\ rest = <<>>
    /\ i_argv_program' = IF cmdline.prog > 0 THEN 1 + cmdline.opts ELSE 0
    /\ pc' = [pc EXCEPT !["P"] = "check"]
    /\ UNCHANGED <<aux, sig, cmdline, nread, rest, flags, outfile, infile, ctx, fdt, ret,
                   status, calls, failed, wrote, redir>>


\* ------------------------------------------------------------------ main
\* line 658 without its test of i_argv_program == 0
ProgramMissing_noZeroTest == i_argv_program >= argc

\* line 658: no program word on the command line
ProgramMissing == i_argv_program = 0 \/ i_argv_program >= argc

\* line 659 without the exception for -U/-G
PrintOnly_never(fl) == FALSE

\* line 659: the program is mandatory unless -U/-G was given
PrintOnly(fl) == "OPTIONAL_ARGS" \in fl

CheckProgram ==
    /\ pc["P"] = "check"
    /\ IF ProgramMissing
       THEN IF PrintOnly(flags)
            THEN /\ ExitWith("P", 0, ctx["P"], fdt["P"])
                 /\ wrote' = wrote
            ELSE /\ ExitWith("P", opt_usage(ERR_PROG_MISSING), ctx["P"], fdt["P"])
                 /\ wrote' = wrote \cup Write("P", fdt["P"], STDERR_FILENO, "diag")
       ELSE /\ Goto("P", "priority", ctx["P"], fdt["P"])
            /\ wrote' = wrote \cup Write("P", fdt["P"], STDOUT_FILENO, "header")
    /\ UNCHANGED <<aux, sig, cmdline, nread, rest, flags, outfile, infile, i_argv_program,
                   status, calls, failed, redir>>

\* a call by process p fails: diagnostic on stderr, then main leaves with code
Fail(p, ev, code, c, t) ==
    /\ failed' = failed \cup {ev}
    /\ wrote' = wrote \cup Write(p, t, STDERR_FILENO, "diag")
    /\ ExitWith(p, code, c, t)

\* main without the test of what setpriority returned
AfterSetpriority_unchecked(ok) == "go on"

\* lines 669-676: where main goes after setpriority returned
AfterSetpriority(ok) == IF ok THEN "go on" ELSE "break"

\* lines 669-676: the priority is set first, when one was asked for
SetPriority ==
    /\ pc["P"] = "priority"
    /\ IF "HAVE_PRIORITY" \in flags
       THEN /\ calls' = Called("P", {"setpriority"})
            /\ \E ok \in BOOLEAN :
                IF AfterSetpriority(ok) = "go on"
                THEN /\ Goto("P", "id_first", ctx["P"], fdt["P"])
                     /\ failed' = IF ok THEN failed ELSE failed \cup {"setpriority"}
                     /\ UNCHANGED wrote
                ELSE Fail("P", "setpriority", ERR_PRIORITY, ctx["P"], fdt["P"])
       ELSE /\ Goto("P", "id_first", ctx["P"], fdt["P"])
            /\ UNCHANGED <<calls, failed, wrote>>
    /\ UNCHANGED <<aux, sig, cmdline, nread, rest, flags, outfile, infile, i_argv_program,
                   status, redir>>

\* ------------------------------------------------------------ set_uidgid
\* line 683 without its test of FILE_NEWIDENTITY
IdentityLast_always(fl) == TRUE

\* main calls set_uidgid before the files are opened with -N, after without
IdentityFirst(fl) == "FILE_NEWIDENTITY" \in fl
IdentityLast(fl) == "FILE_NEWIDENTITY" \notin fl

\* set_uidgid without the test of what setgid returned
AfterSetgid_unchecked(ok) == "setuid"

\* where set_uidgid goes after setgid(gid) returned
AfterSetgid(ok) == IF ok THEN "setuid" ELSE "return ERR_SETID"

\* set_uidgid without the test of what setuid returned
AfterSetuid_unchecked(ok) == "return 0"

\* where set_uidgid goes after setuid(uid) returned
AfterSetuid(ok) == IF ok THEN "return 0" ELSE "return ERR_SETID"

\* first half of set_uidgid, called at label here when wanted holds: setgid
\* if a gid was given.  The second half goes on at label uid.
set_uidgid_gid(here, wanted, uid, skip) ==
    /\ pc["P"] = here
    /\ IF ~wanted
       THEN /\ Goto("P", skip, ctx["P"], fdt["P"])
            /\ UNCHANGED <<calls, failed, wrote>>
       ELSE IF "HAVE_GID" \in flags
       THEN /\ calls' = Called("P", {"set_uidgid", "setgid"})
            /\ \E ok \in BOOLEAN :
                IF AfterSetgid(ok) = "setuid"
                THEN /\ Goto("P", uid, ctx["P"], fdt["P"])
                     /\ failed' = IF ok THEN failed ELSE failed \cup {"setgid"}
                     /\ wrote' = wrote
                ELSE Fail("P", "setgid", ERR_SETID, ctx["P"], fdt["P"])
       ELSE /\ calls' = Called("P", {"set_uidgid"})
            /\ Goto("P", uid, ctx["P"], fdt["P"])
            /\ UNCHANGED <<failed, wrote>>
    /\ UNCHANGED <<aux, sig, cmdline, nread, rest, flags, outfile, infile, i_argv_program,
                   status, redir>>

\* second half of set_uidgid: setuid if a uid was given
set_uidgid_uid(here, next) ==
    /\ pc["P"] = here
    /\ IF "HAVE_UID" \in flags
       THEN /\ calls' = Called("P", {"setuid"})
            /\ \E ok \in BOOLEAN :
                IF AfterSetuid(ok) = "return 0"
                THEN /\ Goto("P", next, ctx["P"], fdt["P"])
                     /\ failed' = IF ok THEN failed ELSE failed \cup {"setuid"}
                     /\ wrote' = wrote
                ELSE Fail("P", "setuid", ERR_SETID, ctx["P"], fdt["P"])
       ELSE /\ Goto("P", next, ctx["P"], fdt["P"])
            /\ UNCHANGED <<calls, failed, wrote>>
    /\ UNCHANGED <<aux, sig, cmdline, nread, rest, flags, outfile, infile, i_argv_program,
                   status, redir>>

\* line 677: with -N, the identity is switched before the files are opened
SetGidFirst == set_uidgid_gid("id_first", IdentityFirst(flags), "id_first_uid", "set_out")
SetUidFirst == set_uidgid_uid("id_first_uid", "set_out")

\* line 683: without -N, after
SetGidLast == set_uidgid_gid("id_last", IdentityLast(flags), "id_last_uid", "do_bench")
SetUidLast == set_uidgid_uid("id_last_uid", "do_bench")


\* --------------------------------------------------------------- set_out
\* stderr following stdout into the file also when only -t/-T was given
BothToFile_orBench(fl) ==
    fl \cap {"TO_STDERR", "TO_STDOUT", "TIME_POSIX", "TIME_EXT"} # {}

\* stderr follows stdout into the file with -1 or -2
BothToFile(fl) == fl \cap {"TO_STDERR", "TO_STDOUT"} # {}

SetOutFailures(fl, file) ==
    IF ~file THEN {"none"}
    ELSE {"none", "open", "dup2_stdout"}
         \cup (IF BothToFile(fl) THEN {"dup2_stderr"} ELSE {})

\* file: a file name was given.  Result: return value (the descriptor of
\* the file, 0 without a file, -1 on error), descriptor table, what was
\* printed, the call that failed
set_out(t, fl, file, fail) ==
    LET fd == LowestFree(t)
        t1 == [t EXCEPT ![fd] = "outfile"]
        t2 == IF BothToFile(fl) THEN Dup2(t1, fd, STDERR_FILENO) ELSE t1
        t3 == Dup2(t2, fd, STDOUT_FILENO)
    IN IF ~file
       THEN [ret |-> 0, fdt |-> t, w |-> {}, call |-> "none"]
       ELSE IF fail = "open" \/ fd < 0
       THEN [ret |-> -1, fdt |-> t, w |-> Write("P", t, STDERR_FILENO, "diag"),
             call |-> "set_out(open)"]
       ELSE IF BothToFile(fl) /\ fail = "dup2_stderr"
       THEN [ret |-> -1, fdt |-> CloseFd(t1, fd),
             w |-> Write("P", t1, STDERR_FILENO, "diag"),
             call |-> "set_out(dup2 stderr)"]
       ELSE IF fail = "dup2_stdout"
       THEN [ret |-> -1, fdt |-> CloseFd(t2, fd),
             w |-> Write("P", t2, STDOUT_FILENO, "diag"),
             call |-> "set_out(dup2 stdout)"]
       ELSE [ret |-> fd, fdt |-> t3, w |-> {}, call |-> "none"]

\* line 679
SetOut ==
    /\ pc["P"] = "set_out"
    /\ calls' = Called("P", {"set_out"} \cup (IF outfile THEN {"open_out"} ELSE {}))
    /\ \E fail \in SetOutFailures(flags, outfile) :
        LET r == set_out(fdt["P"], flags, outfile, fail)
            c == [ctx["P"] EXCEPT !.outfd = r.ret]
        IN /\ wrote' = wrote \cup r.w
           /\ IF r.ret < 0
              THEN /\ failed' = failed \cup {"set_out", r.call}
                   /\ ExitWith("P", ERR_SETOUT, c, r.fdt)
              ELSE /\ failed' = failed
                   /\ Goto("P", "set_in", c, r.fdt)
    /\ UNCHANGED <<aux, sig, cmdline, nread, rest, flags, outfile, infile, i_argv_program,
                   status, redir>>

\* ---------------------------------------------------------------- set_in
SetInFailures(file) == IF ~file THEN {"none"} ELSE {"none", "open", "dup2_stdin"}

set_in(t, file, fail) ==
    LET fd == LowestFree(t)
        t1 == [t EXCEPT ![fd] = "infile"]
        t2 == Dup2(t1, fd, STDIN_FILENO)
    IN IF ~file
       THEN [ret |-> 0, fdt |-> t, w |-> {}]
       ELSE IF fail = "open" \/ fd < 0
       THEN [ret |-> -1, fdt |-> t, w |-> Write("P", t, STDERR_FILENO, "diag")]
       ELSE IF fail = "dup2_stdin"
       THEN [ret |-> -1, fdt |-> CloseFd(t1, fd),
             w |-> Write("P", t1, STDERR_FILENO, "diag")]
       ELSE [ret |-> fd, fdt |-> t2, w |-> {}]

\* line 681
SetIn ==
    /\ pc["P"] = "set_in"
    /\ calls' = Called("P", {"set_in"} \cup (IF infile THEN {"open_in"} ELSE {}))
    /\ \E fail \in SetInFailures(infile) :
        LET r == set_in(fdt["P"], infile, fail)
            c == [ctx["P"] EXCEPT !.infd = r.ret]
        IN /\ wrote' = wrote \cup r.w
           /\ IF r.ret < 0
              THEN /\ failed' = failed \cup {"set_in"}
                   /\ ExitWith("P", ERR_SETIN, c, r.fdt)
              ELSE /\ failed' = failed
                   /\ Goto("P", "id_last", c, r.fdt)
    /\ UNCHANGED <<aux, sig, cmdline, nread, rest, flags, outfile, infile, i_argv_program,
                   status, redir>>

\* -------------------------------------------------------------- do_bench
\* the parent returning 0 from do_bench, as the child does
ParentAfterFork_returns == "build_argv"

\* what the process that called fork() does next when fork returned a pid
\* greater than 0: it supervises the child and never returns to main
ParentAfterFork == "supervise"

\* line 685, do_bench up to the fork
DoBench ==
    /\ pc["P"] = "do_bench"
    /\ IF ~Bench(flags)
       THEN /\ calls' = Called("P", {"do_bench"})
            /\ Goto("P", "build_argv", ctx["P"], fdt["P"])
            /\ UNCHANGED <<failed, wrote>>
       ELSE /\ calls' = Called("P", {"do_bench", "fork"})
            /\ \E ok \in BOOLEAN :
                IF ok
                THEN /\ pc' = [pc EXCEPT !["P"] = ParentAfterFork,
                                         !["C"] = "build_argv"]
                     /\ ctx' = [ctx EXCEPT !["C"] = ctx["P"]]
                     /\ fdt' = [fdt EXCEPT !["C"] = fdt["P"]]
                     /\ UNCHANGED <<ret, failed, wrote>>
                ELSE Fail("P", "fork", ERR_BENCH, ctx["P"], fdt["P"])
    /\ UNCHANGED <<aux, sig, cmdline, nread, rest, flags, outfile, infile, i_argv_program,
                   status, redir>>

\* line 339: the pid of the child, as fork returned it to the supervisor
ForkedPid == 100

\* the process p is running: the launcher on its way to execvp, or the program
Running(p) == pc[p] \in {"build_argv", "execvp", "program"}

\* kill(pid, s) by the supervisor, g being sig with the delivery recorded.
\* A child that has not called execvp yet has the default dispositions and
\* is terminated; the program is terminated or handles the signal.  A kill
\* of another pid leaves the child alone.
kill(g, pid, s) ==
    /\ sig' = [g EXCEPT !.kills = @ \cup {[pid |-> pid, sig |-> s,
                                            reaped |-> pc["P"] # "supervise"]},
                        !.sent = IF pid = ForkedPid THEN @ \cup {s} ELSE @]
    /\ \/ /\ pid = ForkedPid
          /\ Running("C")
          /\ pc' = [pc EXCEPT !["C"] = IF pc["C"] = "program"
                                       THEN "prog_signaled" ELSE "killed"]
          /\ ret' = [ret EXCEPT !["C"] = s]
       \/ /\ pid # ForkedPid \/ pc["C"] \notin {"build_argv", "execvp"}
          /\ UNCHANGED <<pc, ret>>

\* lines 320-328, sig_handler(x) in the supervisor: the first call records x
\* as the pid, every later one calls kill(pid, x)
sig_handler(g, x) ==
    IF g.pid = 0
    THEN /\ sig' = [g EXCEPT !.pid = x]
         /\ UNCHANGED <<pc, ret>>
    ELSE kill(g, g.pid, x)

\* sig_handler(pid) called once the loop has installed the handlers
RegisterWhen_installed(n) == n = Len(sigs)

\* line 356, before the loop of lines 358-361: sig_handler(pid) is called
\* when n = 0 handlers are installed
RegisterWhen(n) == n = 0

\* line 356: sig_handler is given the pid of the child
SupRegister ==
    /\ pc["P"] = "supervise"
    /\ ~sig.reg
    /\ RegisterWhen(sig.handlers)
    /\ sig_handler([sig EXCEPT !.reg = TRUE], ForkedPid)
    /\ UNCHANGED <<aux, cmdline, nread, rest, flags, outfile, infile, i_argv_program,
                   ctx, fdt, status, calls, failed, wrote, redir>>

\* lines 358-361: one turn of the loop installs sig_handler as the handler
\* of the next signal of sigs (sigaction does not fail for these signals)
SupSigaction ==
    /\ pc["P"] = "supervise"
    /\ sig.handlers < Len(sigs)
    /\ sig.reg \/ ~RegisterWhen(sig.handlers)
    /\ sig' = [sig EXCEPT !.handlers = @ + 1]
    /\ UNCHANGED <<aux, cmdline, nread, rest, flags, outfile, infile, i_argv_program,
                   ctx, fdt, pc, ret, status, calls, failed, wrote, redir>>

\* a process that has ended, as waitpid sees it
Ended(p) == pc[p] \in {"exited", "prog_exited", "prog_signaled", "killed"}

\* a wait status that says exit code 0 whatever the end of the process
WaitStatus_zero(p) == [kind |-> "exited", val |-> 0]

\* the wait status of an ended process: exit code (its low 8 bits) or signal
WaitStatus(p) ==
    IF pc[p] \in {"prog_signaled", "killed"}
    THEN [kind |-> "signaled", val |-> ret[p]]
    ELSE [kind |-> "exited", val |-> ret[p] % 256]

\* the values an int that waitpid did not set can hold
AnyStatus ==
    {[kind |-> "exited", val |-> c] : c \in ProgExitCodes \cup {ERR_BUILDARGV, ERR_EXEC}}
    \cup {[kind |-> "signaled", val |-> n] : n \in ProgSignals}
    \cup {[kind |-> "unknown", val |-> 0]}

\* waitpid with WNOHANG as its options: it returns at once
waitpid_nohang(ended) == TRUE

\* line 364, waitpid(pid, &status, 0): whether the call returns, given
\* whether the child has ended; with no option it blocks until then
waitpid(ended) == ended

\* lines 352-365: the pid is given to sig_handler, the handlers are installed,
\* and waitpid blocks until the child has ended.  When waitpid does not
\* return the pid (ECHILD) status is left as it was, not initialised.
SupWait ==
    /\ pc["P"] = "supervise"
    /\ sig.handlers = Len(sigs)
    /\ sig.reg
    /\ waitpid(Ended("C"))
    /\ \/ /\ Ended("C")
          /\ status' = WaitStatus("C")
          /\ UNCHANGED <<failed, wrote>>
       \/ /\ status' \in AnyStatus
          /\ failed' = failed \cup {"waitpid"}
          /\ wrote' = wrote \cup Write("P", fdt["P"], STDERR_FILENO, "diag")
    /\ pc' = [pc EXCEPT !["P"] = "collected"]
    /\ UNCHANGED <<aux, sig, cmdline, nread, rest, flags, outfile, infile, i_argv_program,
                   ctx, fdt, ret, calls, redir>>

\* the timings printed on stderr instead of the backup stream
ReportFd_stderr(c) == STDERR_FILENO

\* the stream the timings are printed on: out = ctx->alternatefile
ReportFd(c) == c.alternatefile

\* lines 367-424: the timings are printed
SupReport ==
    /\ pc["P"] = "collected"
    /\ LET out == ReportFd(ctx["P"])
           Report(kind) == IF out \in FDs THEN Write("P", fdt["P"], out, kind) ELSE {}
       IN wrote' = wrote
            \cup (IF "TIME_POSIX" \in flags THEN Report("report_posix") ELSE {})
            \cup (IF "TIME_EXT" \in flags THEN Report("report_ext") ELSE {})
    /\ pc' = [pc EXCEPT !["P"] = "reported"]
    /\ UNCHANGED <<aux, sig, cmdline, nread, rest, flags, outfile, infile, i_argv_program,
                   ctx, fdt, ret, status, calls, failed, redir>>

\* the signal number added to -100 instead of subtracted
ChildStatusToExit_plus(st) ==
    IF st.kind = "exited" THEN st.val
    ELSE IF st.kind = "signaled" THEN -100 + st.val
    ELSE -100

\* lines 426-435: the exit code of the supervisor
ChildStatusToExit(st) ==
    IF st.kind = "exited" THEN st.val
    ELSE IF st.kind = "signaled" THEN -100 - st.val
    ELSE -100

\* the value given to exit seen as it is, without reduction
Observed_whole(code) == code

\* lines 428-434, exit(code): the status the parent of the supervisor
\* observes is the low 8 bits of the value given to exit
Observed(code) == code % 256

SupExit ==
    /\ pc["P"] = "reported"
    /\ wrote' = wrote \cup (IF status.kind = "exited" THEN {}
                            ELSE Write("P", fdt["P"], STDERR_FILENO, "diag"))
    /\ ExitWith("P", ChildStatusToExit(status), ctx["P"], fdt["P"])
    /\ UNCHANGED <<aux, sig, cmdline, nread, rest, flags, outfile, infile, i_argv_program,
                   status, calls, failed, redir>>

\* ------------------------------------------------- build_argv and execvp
\* line 687, by the launcher itself or by the forked child
BuildArgv(p) ==
    /\ pc[p] = "build_argv"
    /\ calls' = Called(p, {"build_argv"})
    /\ \E ok \in BOOLEAN :
        IF ok THEN /\ Goto(p, "execvp", ctx[p], fdt[p])
                   /\ UNCHANGED <<failed, wrote>>
        ELSE Fail(p, "build_argv", ERR_BUILDARGV, ctx[p], fdt[p])
    /\ UNCHANGED <<aux, sig, cmdline, nread, rest, flags, outfile, infile, i_argv_program,
                   status, redir>>

\* line 690: on success the process is the program from now on
Execvp(p) ==
    /\ pc[p] = "execvp"
    /\ calls' = Called(p, {"execvp"})
    /\ \E ok \in BOOLEAN :
        IF ok THEN /\ Goto(p, "program", ctx[p], fdt[p])
                   /\ UNCHANGED <<failed, wrote>>
        ELSE Fail(p, "execvp", ERR_EXEC, ctx[p], fdt[p])
    /\ UNCHANGED <<aux, sig, cmdline, nread, rest, flags, outfile, infile, i_argv_program,
                   status, redir>>

\* the program ends: it exits or a signal kills it
ProgramEnds(p) ==
    /\ pc[p] = "program"
    /\ \/ \E c \in ProgExitCodes :
            /\ pc' = [pc EXCEPT ![p] = "prog_exited"]
            /\ ret' = [ret EXCEPT ![p] = c]
       \/ \E n \in ProgSignals :
            /\ pc' = [pc EXCEPT ![p] = "prog_signaled"]
            /\ ret' = [ret EXCEPT ![p] = n]
    /\ UNCHANGED <<aux, sig, cmdline, nread, rest, flags, outfile, infile, i_argv_program,
                   ctx, fdt, status, calls, failed, wrote, redir>>

\* ------------------------------------------------------------------ Spec
Next ==
    \/ FirstPassOption
    \/ FirstPassEnd
    \/ FirstPassReport
    \/ SecondPassOption
    \/ SecondPassEnd
    \/ CheckProgram
    \/ SetPriority
    \/ SetGidFirst
    \/ SetUidFirst
    \/ SetOut
    \/ SetIn
    \/ SetGidLast
    \/ SetUidLast
    \/ DoBench
    \/ SupRegister
    \/ SupSigaction
    \/ SupWait
    \/ SupReport
    \/ SupExit
    \/ \E p \in Procs : BuildArgv(p)
    \/ \E p \in Procs : Execvp(p)
    \/ \E p \in Procs : ProgramEnds(p)

Spec == Init /\ [][Next]_vars

\* ------------------------------------------- signals to the supervisor
\* the signals whose handler is installed
Handled == {sigs[i] : i \in 1..sig.handlers}

\* a signal of sigs is delivered to the supervisor, between the fork and
\* its exit: its handler runs if it is installed, and otherwise the default
\* action terminates the supervisor
SigDeliver ==
    /\ pc["P"] \in {"supervise", "collected", "reported"}
    /\ Cardinality(sig.got) < MaxSignals
    /\ \E i \in 1..Len(sigs) :
          IF sigs[i] \in Handled
          THEN sig_handler([sig EXCEPT !.got = @ \cup {sigs[i]}], sigs[i])
          ELSE /\ sig' = [sig EXCEPT !.got = @ \cup {sigs[i]}]
               /\ pc' = [pc EXCEPT !["P"] = "killed"]
               /\ ret' = [ret EXCEPT !["P"] = sigs[i]]
    /\ UNCHANGED <<aux, cmdline, nread, rest, flags, outfile, infile, i_argv_program,
                   ctx, fdt, status, calls, failed, wrote, redir>>

SigInit == Init /\ cmdline.opts <= MaxSigArgs

\* ------------------------------ the first pass, with the options it saw
\* lines 448-461: parse_option_first_pass is called with one more option
ScanOption ==
    /\ pc["P"] = "pass1"
    /\ Len(seen) < MaxSeen
    /\ \E opt \in FirstPassOpts :
          /\ flags' = parse_option_first_pass(flags, opt)
          /\ seen' = Append(seen, opt.o)
    /\ UNCHANGED <<cmdline, nread, rest, outfile, infile, i_argv_program, ctx,
                   fdt, pc, ret, status, calls, failed, wrote, redir, sig, clk,
                   idr, av>>

\* the first pass before its first option; the options it is given are
\* those of seen, up to MaxSeen of them
ScanInit ==
    /\ LaunchInit
    /\ cmdline = [opts |-> MaxArgs, prog |-> 1]
    /\ clk = NoClock /\ idr = NoId /\ seen = <<>> /\ av = NoArgv

ScanNext == ScanOption

ScanSpec == ScanInit /\ [][ScanNext]_vars

\* ----------------------------------------------------------- build_argv
\* the words a program and its arguments are taken from
Words == {"prog", "a", "b"}

\* sizeof(char *) of the platforms
PtrSizes == {4, 8}

\* lines 192-209, build_argv(argc, argv) with pointers of ptr bytes:
\* malloc(argc + 1) allocates argc + 1 bytes; the loop and the terminator
\* write argc + 1 pointers from the start of the block
build_argv(argv, ptr) ==
    [alloc |-> Len(argv) + 1,
     used |-> (Len(argv) + 1) * ptr,
     vec |-> Append(argv, "NULL")]

\* line 687: build_argv is called with the program and its arguments.  A
\* write past the end of the block is undefined: the vector is as written
\* or the heap is damaged.
BuildVector ==
    /\ av.at = "args"
    /\ LET r == build_argv(av.argv, av.ptr)
       IN \E v \in {r.vec} \cup (IF r.used > r.alloc THEN {<<"undefined">>} ELSE {}) :
            av' = [av EXCEPT !.at = "built", !.alloc = r.alloc, !.used = r.used,
                             !.vec = v]
    /\ UNCHANGED <<launch, clk, idr, seen>>

\* a launch of a program with up to MaxArgc words
ArgvInit ==
    /\ LaunchInit
    /\ cmdline = [opts |-> 0, prog |-> 1]
    /\ clk = NoClock /\ idr = NoId /\ seen = <<>>
    /\ av \in {[NoArgv EXCEPT !.argv = a, !.ptr = p, !.at = "args"] :
                  a \in UNION {[1..n -> Words] : n \in 1..MaxArgc},
                  p \in PtrSizes}

ArgvNext == BuildVector

ArgvSpec == ArgvInit /\ [][ArgvNext]_vars

\* lines 352-436: the supervisor is a running process; each of its steps
\* is taken when it stays possible
SupFairness ==
    /\ WF_vars(SupRegister) /\ WF_vars(SupSigaction) /\ WF_vars(SupWait)
    /\ WF_vars(SupReport) /\ WF_vars(SupExit)

\* --------------------------------- the identity options of parse_option
\* the characters identity strings are made of: digits, the hexadecimal
\* digit a, the x of the prefix 0x and the sign
Chars == {"0", "1", "9", "a", "x", "-"}

IdStrings == UNION {[1..n -> Chars] : n \in 0..MaxIdLen}

LONG_MAX == 2^(LongBits - 1) - 1
LONG_MIN == 0 - 2^(LongBits - 1)

\* the value of a character as a digit; 16 for one that is no digit
DigitOf(c) ==
    CASE c = "0" -> 0 [] c = "1" -> 1 [] c = "9" -> 9 [] c = "a" -> 10
      [] OTHER -> 16

\* the character at position k of s, "" for the terminating NUL
CharAt(s, k) == IF k \in 1..Len(s) THEN s[k] ELSE ""

\* the first position from k on that holds no digit of base b
RECURSIVE ScanDigits(_, _, _)
ScanDigits(s, k, b) ==
    IF DigitOf(CharAt(s, k)) < b THEN ScanDigits(s, k + 1, b) ELSE k

\* the number the digits of s at positions k..e-1 denote in base b
RECURSIVE DigitsValue(_, _, _, _, _)
DigitsValue(s, k, e, b, acc) ==
    IF k >= e THEN acc
    ELSE DigitsValue(s, k + 1, e, b, acc * b + DigitOf(s[k]))

\* strtol(arg, &endptr, 0) of the C library: optional sign, base from the
\* prefix (0x: 16, 0: 8, else 10), the longest run of digits.  endptr is the
\* position of the first character not consumed (Len(s)+1: the NUL).  With
\* no digit nothing is consumed and 0 returned, errno EINVAL on the
\* platforms that set it (einval); out of the range of long gives ERANGE.
strtol(s, einval) ==
    LET neg == CharAt(s, 1) = "-"
        i == IF neg THEN 2 ELSE 1
        hex == /\ CharAt(s, i) = "0" /\ CharAt(s, i + 1) = "x"
               /\ DigitOf(CharAt(s, i + 2)) < 16
        base == IF hex THEN 16 ELSE IF CharAt(s, i) = "0" THEN 8 ELSE 10
        start == IF hex THEN i + 2 ELSE i
        end == ScanDigits(s, start, base)
        abs == DigitsValue(s, start, end, base, 0)
        v == IF neg THEN 0 - abs ELSE abs
    IN  IF end = start
        THEN [val |-> 0, endptr |-> 1,
              errno |-> IF einval THEN "EINVAL" ELSE "none"]
        ELSE IF v > LONG_MAX THEN [val |-> LONG_MAX, endptr |-> end, errno |-> "ERANGE"]
        ELSE IF v < LONG_MIN THEN [val |-> LONG_MIN, endptr |-> end, errno |-> "ERANGE"]
        ELSE [val |-> v, endptr |-> end, errno |-> "none"]

\* lines 566 and 594: the long strtol returned, stored in a uid_t or gid_t
ToId(v) == v % 2^UidBits

\* the accounts and the groups of the system
Users == (<<"a">> :> 1) @@ (<<"x", "a">> :> 2)
Groups == (<<"a">> :> 1) @@ (<<"a", "a">> :> 2)

\* vlib/account.h: the id of the user of that name, 0 returned when found
pwfindid_r(name) ==
    IF name \in DOMAIN Users THEN [ret |-> 0, id |-> Users[name]]
    ELSE [ret |-> 0 - 1, id |-> 0]

\* vlib/account.h: the id of the group of that name, 0 returned when found
grfindid_r(name) ==
    IF name \in DOMAIN Groups THEN [ret |-> 0, id |-> Groups[name]]
    ELSE [ret |-> 0 - 1, id |-> 0]

findid_r(opt, name) ==
    IF opt \in {"u", "U"} THEN pwfindid_r(name) ELSE grfindid_r(name)

\* lines 567 and 595: the test that keeps the number of strtol
NumberKept(r, s) == r.errno = "none" /\ r.endptr = Len(s) + 1

\* the outcome of a name lookup
Looked(l) == [ok |-> l.ret = 0, id |-> l.id, lookup |-> TRUE]

\* lines 559-576 and 587-604, -u and -g: strtol first, the name lookup when
\* the number is not kept
ResolveRunAs ==
    /\ idr.at = "arg"
    /\ idr.opt \in {"u", "g"}
    /\ \E einval \in BOOLEAN :
          LET r == strtol(idr.arg, einval)
              res == IF NumberKept(r, idr.arg)
                     THEN [ok |-> TRUE, id |-> ToId(r.val), lookup |-> FALSE]
                     ELSE Looked(findid_r(idr.opt, idr.arg))
          IN idr' = [idr EXCEPT !.at = "done", !.ok = res.ok, !.id = res.id,
                                !.lookup = res.lookup]
    /\ UNCHANGED <<launch, clk, seen, av>>

\* lines 577-586 and 605-614, -U and -G: the name lookup alone
ResolvePrint ==
    /\ idr.at = "arg"
    /\ idr.opt \in {"U", "G"}
    /\ LET res == Looked(findid_r(idr.opt, idr.arg))
       IN idr' = [idr EXCEPT !.at = "done", !.ok = res.ok, !.id = res.id,
                             !.lookup = res.lookup]
    /\ UNCHANGED <<launch, clk, seen, av>>

\* a launch with one identity option, of any argument
ResolveInit ==
    /\ LaunchInit
    /\ cmdline = [opts |-> 1, prog |-> 1]
    /\ clk = NoClock
    /\ idr \in {[NoId EXCEPT !.opt = o, !.arg = a, !.at = "arg"] :
                   o \in {"u", "g", "U", "G"}, a \in IdStrings}
    /\ seen = <<>>
    /\ av = NoArgv

ResolveNext == ResolveRunAs \/ ResolvePrint

ResolveSpec == ResolveInit /\ [][ResolveNext]_vars

\* ------------------------------------------- the elapsed time of do_bench
\* vlib/time.h, vtimespecsub(a, b, res): res = a - b
vtimespecsub(a, b) == a - b

\* lines 335-338 and 368-371: the timestamp vclock_gettime read, zeroed by
\* memset when the call failed
Timestamp(ok, now) == IF ok THEN now ELSE 0

\* lines 335-338: the start timestamp, read before the fork
ClockStart ==
    /\ clk.at = "idle"
    /\ \E ok \in BOOLEAN :
          clk' = [clk EXCEPT !.at = "started", !.ts0 = Timestamp(ok, clk.now)]
    /\ UNCHANGED <<launch, idr, seen, av>>

\* the monotonic clock goes on
ClockTick ==
    /\ clk.at \in {"idle", "started"}
    /\ clk.now < MaxTime
    /\ clk' = [clk EXCEPT !.now = @ + 1]
    /\ UNCHANGED <<launch, idr, seen, av>>

\* lines 368-372: the end timestamp, read after waitpid, and the elapsed
\* time left in ts1 by vtimespecsub(&ts1, &ts0, &ts1)
ClockStop ==
    /\ clk.at = "started"
    /\ \E ok \in BOOLEAN :
          clk' = [clk EXCEPT !.at = "stopped",
                             !.ts1 = vtimespecsub(Timestamp(ok, clk.now), clk.ts0)]
    /\ UNCHANGED <<launch, idr, seen, av>>

\* a launch with -t and a program, at any time of the clock
ClockInit ==
    /\ LaunchInit
    /\ cmdline = [opts |-> 1, prog |-> 1]
    /\ clk \in {[NoClock EXCEPT !.now = t] : t \in 1..MaxTime}
    /\ idr = NoId
    /\ seen = <<>>
    /\ av = NoArgv

ClockNext == ClockStart \/ ClockTick \/ ClockStop

ClockSpec == ClockInit /\ [][ClockNext]_vars

SigNext == Next \/ SigDeliver

SigSpec == SigInit /\ [][SigNext]_vars

SigLiveSpec == SigSpec /\ SupFairness


\* ---------------------------------------------------------------- claims
Count(e) == calls["P"][e] + calls["C"][e]

\* the target program was not started: no fork, no exec
NotLaunched ==
    /\ Count("fork") = 0
    /\ Count("execvp") = 0
    /\ \A p \in Procs : pc[p] \notin {"program", "prog_exited", "prog_signaled"}

\* C1: when a gid and a uid are requested setgid is applied before setuid;
\* when setgid fails setuid is never attempted, the launch ends with
\* ERR_SETID and nothing is forked or executed; when setuid fails nothing is
\* forked or executed either.
C1_GidBeforeUid ==
    /\ ({"HAVE_GID", "HAVE_UID"} \subseteq flags /\ Count("setuid") > 0)
          => (Count("setgid") > 0 /\ "setgid" \notin failed)
    /\ "setgid" \in failed
          => /\ Count("setuid") = 0
             /\ pc["P"] = "exited" /\ ret["P"] = ERR_SETID
             /\ NotLaunched
    /\ "setuid" \in failed
          => /\ pc["P"] = "exited"
             /\ NotLaunched

\* setgid failed in a launch that also asked for a uid
C1_Witness ==
    /\ "setgid" \in failed
    /\ "HAVE_UID" \in flags
    /\ pc["P"] = "exited"

\* C2: set_uidgid is called at most once, after set_out and set_in have
\* succeeded without -N and before them with -N, and it has been called
\* (with setgid/setuid for the ids given) once do_bench is reached.
C2_SwitchOnce ==
    /\ Count("set_uidgid") <= 1 /\ Count("setgid") <= 1 /\ Count("setuid") <= 1
    /\ ("FILE_NEWIDENTITY" \notin flags /\ Count("set_uidgid") > 0)
          => /\ Count("set_out") = 1 /\ Count("set_in") = 1
             /\ failed \cap {"set_out", "set_in"} = {}
    /\ ("FILE_NEWIDENTITY" \in flags /\ pc["P"] \in {"id_first", "id_first_uid"})
          => Count("set_out") = 0 /\ Count("set_in") = 0
    /\ ("FILE_NEWIDENTITY" \in flags /\ Count("set_out") + Count("set_in") > 0)
          => /\ Count("set_uidgid") = 1
             /\ failed \cap {"setgid", "setuid"} = {}
             /\ "HAVE_GID" \in flags => Count("setgid") = 1
             /\ "HAVE_UID" \in flags => Count("setuid") = 1
    /\ (pc["P"] = "do_bench" \/ Count("do_bench") > 0)
          => /\ Count("set_uidgid") = 1
             /\ "HAVE_GID" \in flags => Count("setgid") = 1
             /\ "HAVE_UID" \in flags => Count("setuid") = 1

\* with -N the uid was switched, then the output file opened, then the
\* program executed
C2_Witness ==
    /\ "FILE_NEWIDENTITY" \in flags
    /\ Count("setuid") = 1
    /\ Count("open_out") = 1
    /\ pc["P"] = "program"

\* C3: the supervisor exits with the child's exit code when the child
\* exited, with -100-N when signal N killed it, with -100 otherwise.
C3_ExitCode ==
    (pc["P"] = "exited" /\ status.kind # "none")
       => /\ status.kind = "exited" => ret["P"] = status.val
          /\ status.kind = "signaled" => ret["P"] = 0 - 100 - status.val
          /\ status.kind = "unknown" => ret["P"] = 0 - 100
          /\ "waitpid" \notin failed =>
                /\ pc["C"] = "prog_exited" => ret["P"] = ret["C"]
                /\ pc["C"] = "prog_signaled" => ret["P"] = 0 - 100 - ret["C"]
                /\ pc["C"] = "exited" => ret["P"] = ret["C"]

\* the program was killed by signal 9 and the supervisor exited with -109
C3_Witness ==
    /\ pc["P"] = "exited"
    /\ pc["C"] = "prog_signaled" /\ ret["C"] = 9
    /\ status = [kind |-> "signaled", val |-> 9]
    /\ ret["P"] = 0 - 109

\* C4: after a successful fork the parent never calls build_argv or execvp
\* and never is the program; only the child goes on to execvp, so at most
\* one process executes the program.
C4_ParentNeverExecs ==
    /\ (calls["P"]["fork"] > 0 /\ "fork" \notin failed)
          => /\ calls["P"]["build_argv"] = 0
             /\ calls["P"]["execvp"] = 0
             /\ pc["P"] \in {"supervise", "collected", "reported", "exited"}
    /\ pc["C"] # "none" => (calls["P"]["fork"] = 1 /\ "fork" \notin failed)
    /\ Cardinality({p \in Procs : calls[p]["execvp"] > 0}) <= 1
    /\ Cardinality({p \in Procs :
                      pc[p] \in {"program", "prog_exited", "prog_signaled"}}) <= 1

\* the child is the program while the parent supervises it
C4_Witness ==
    /\ calls["P"]["fork"] = 1
    /\ pc["C"] = "program"
    /\ pc["P"] = "supervise"


\* set_redirections has succeeded and set_out has not yet touched stdout/stderr
AfterRedirections ==
    /\ redir = <<0>>
    /\ pc["P"] \in {"redirected", "pass2", "check", "priority", "id_first",
                    "id_first_uid", "set_out"}

NoMode == flags \cap {"TO_STDOUT", "TO_STDERR"} = {}

\* C5, as claimed: with -1 stderr goes to stdout's destination; with -2, or
\* with benchmarking and no -1/-2, stdout goes to stderr's destination;
\* with neither, nothing is rewired.
C5_AsClaimed ==
    AfterRedirections
       => /\ "TO_STDOUT" \in flags
                => fdt["P"][STDERR_FILENO] = "out0" /\ fdt["P"][STDOUT_FILENO] = "out0"
          /\ ("TO_STDERR" \in flags \/ (Bench(flags) /\ NoMode))
                => fdt["P"][STDOUT_FILENO] = "err0" /\ fdt["P"][STDERR_FILENO] = "err0"
          /\ (NoMode /\ ~Bench(flags))
                => fdt["P"][STDOUT_FILENO] = "out0" /\ fdt["P"][STDERR_FILENO] = "err0"

\* C5, amended: with -1, or with benchmarking and no -1/-2, stderr goes to
\* stdout's destination; with -2 stdout goes to stderr's destination; with
\* neither, nothing is rewired and there is no backup stream.
C5_Redirection ==
    AfterRedirections
       => /\ ("TO_STDOUT" \in flags \/ (Bench(flags) /\ NoMode))
                => fdt["P"][STDERR_FILENO] = "out0" /\ fdt["P"][STDOUT_FILENO] = "out0"
          /\ "TO_STDERR" \in flags
                => fdt["P"][STDOUT_FILENO] = "err0" /\ fdt["P"][STDERR_FILENO] = "err0"
          /\ (NoMode /\ ~Bench(flags))
                => /\ fdt["P"][STDOUT_FILENO] = "out0"
                   /\ fdt["P"][STDERR_FILENO] = "err0"
                   /\ ctx["P"].alternatefile = -1

\* benchmarking without -1/-2: stderr now goes where stdout goes
C5_Witness ==
    /\ AfterRedirections
    /\ Bench(flags) /\ NoMode
    /\ fdt["P"][STDERR_FILENO] = "out0"
    /\ fdt["P"][STDOUT_FILENO] = "out0"

ReportKinds == {"report_posix", "report_ext"}

\* where the stream that set_redirections backs up went before
BackupDest == IF "TO_STDERR" \in flags THEN "out0" ELSE "err0"

\* C6: with benchmarking, once the redirections are set, the timings go to
\* the original stdout with -2 and to the original stderr otherwise, and
\* nothing else is written there by the launcher, its child included.
C6_ReportAlone ==
    (Bench(flags) /\ redir = <<0>>)
       => \A w \in wrote :
             /\ w.what \in ReportKinds => w.dest = BackupDest
             /\ w.dest = BackupDest => w.what \in ReportKinds

\* -2 -t with an output file: the timings are on the original stdout
C6_Witness ==
    /\ "TO_STDERR" \in flags /\ "TIME_POSIX" \in flags /\ outfile
    /\ pc["P"] = "exited"
    /\ [by |-> "P", dest |-> "out0", what |-> "report_posix"] \in wrote
    /\ [by |-> "P", dest |-> "err0", what |-> "header"] \in wrote

\* none of the steps of the launch after the option passes was taken
NoLaunchStep == \A e \in Events \ {"set_redirections"} : Count(e) = 0

\* C7: without a program and without -U/-G none of setpriority, setgid,
\* setuid, set_out, set_in, fork, execvp is attempted; when the options are
\* valid and the redirections set, the launch ends with code 1 after a
\* diagnostic.
C7_MissingProgram ==
    /\ (cmdline.prog = 0 /\ "OPTIONAL_ARGS" \notin flags) => NoLaunchStep
    /\ (pc["P"] = "exited" /\ cmdline.prog = 0 /\ "OPTIONAL_ARGS" \notin flags
          /\ failed = {})
          => /\ ret["P"] = 1
             /\ \E w \in wrote : w.by = "P" /\ w.what = "diag"

\* -u and -p were given but no program
C7_Witness ==
    /\ pc["P"] = "exited" /\ ret["P"] = 1
    /\ cmdline.prog = 0
    /\ {"HAVE_UID", "HAVE_PRIORITY"} \subseteq flags
    /\ failed = {}

\* C8: with -U/-G accepted and no program, no step of the launch is taken;
\* when the other options are valid and the redirections set, the launch
\* ends with code 0.
C8_PrintOnly ==
    /\ (cmdline.prog = 0 /\ "OPTIONAL_ARGS" \in flags) => NoLaunchStep
    /\ (pc["P"] = "exited" /\ cmdline.prog = 0 /\ "OPTIONAL_ARGS" \in flags
          /\ failed = {})
          => /\ ret["P"] = 0
             /\ \E w \in wrote : w.by = "P" /\ w.what = "id"

\* -U with -g and -o but no program: the id was printed, nothing else done
C8_Witness ==
    /\ pc["P"] = "exited" /\ ret["P"] = 0
    /\ cmdline.prog = 0
    /\ {"OPTIONAL_ARGS", "HAVE_GID"} \subseteq flags /\ outfile
    /\ failed = {}

\* C9, as claimed: when an option value is rejected no step of the launch
\* has been taken and descriptors 0, 1 and 2 are as they were at the start.
C9_AsClaimed ==
    "parse_option" \in failed
       => /\ NoLaunchStep
          /\ fdt["P"][STDIN_FILENO] = "in0"
          /\ fdt["P"][STDOUT_FILENO] = "out0"
          /\ fdt["P"][STDERR_FILENO] = "err0"

\* C9, amended: when an option value is rejected the process exits and no
\* step of the launch (priority, identity, files, fork, exec) has been
\* taken; stdin is untouched; stdout and stderr are untouched when neither
\* -1/-2 nor -t/-T was given, and otherwise set_redirections has already
\* rewired them.
C9_ErrorBeforeLaunch ==
    "parse_option" \in failed
       => /\ pc["P"] = "exited"
          /\ NoLaunchStep
          /\ fdt["P"][STDIN_FILENO] = "in0"
          /\ (NoMode /\ ~Bench(flags))
                => fdt["P"][STDOUT_FILENO] = "out0" /\ fdt["P"][STDERR_FILENO] = "err0"
          /\ ~(NoMode /\ ~Bench(flags))
                => /\ redir = <<0>>
                   /\ fdt["P"][STDOUT_FILENO] = fdt["P"][STDERR_FILENO]

\* -t with a bad -u value: stderr was rewired before the error was reported
C9_Witness ==
    /\ "parse_option" \in failed
    /\ Bench(flags)
    /\ fdt["P"][STDERR_FILENO] = "out0"
    /\ [by |-> "P", dest |-> "out0", what |-> "diag"] \in wrote

\* C10: nothing is written by the launcher before set_redirections has
\* returned.
C10_SilentFirstPass == redir = <<>> => wrote = {}

\* -2 then -1: the warning was printed after stderr had been rewired
C10_Witness ==
    /\ redir = <<0>>
    /\ {"TO_STDOUT", "WARN_MOREREDIRS"} \subseteq flags
    /\ [by |-> "P", dest |-> "out0", what |-> "warning"] \in wrote

\* the descriptors a process acquired: all but the three it was started with
Acquired == {f \in FDs : f > STDERR_FILENO}

\* C11: when a launcher process has terminated without having replaced its
\* image, every descriptor it acquired (the backup descriptor, the output
\* file, the input file) has been closed.
C11_AllReleased ==
    \A p \in Procs :
        pc[p] = "exited" => \A f \in Acquired : fdt[p][f] = Closed

\* dup2 failed in set_redirections: the launcher has exited with the backup
\* descriptor still open
C11_Witness ==
    /\ pc["P"] = "exited" /\ ret["P"] = ERR_REDIR
    /\ redir = <<0 - 2>>
    /\ \E f \in Acquired : fdt["P"][f] = BackupDest

\* the steps of the launch that do not come after the failing step ev
NotAfter(ev) ==
    LET ids   == {"set_uidgid", "setgid", "setuid"}
        files == {"set_out", "set_in", "open_out", "open_in"}
        first == {"set_redirections", "setpriority"}
        N     == "FILE_NEWIDENTITY" \in flags
    IN CASE ev = "set_redirections" -> {"set_redirections"}
         [] ev = "setpriority" -> first
         [] ev = "setgid"  -> first \cup {"set_uidgid", "setgid"}
                                \cup (IF N THEN {} ELSE files)
         [] ev = "setuid"  -> first \cup ids \cup (IF N THEN {} ELSE files)
         [] ev = "set_out" -> first \cup {"set_out", "open_out"}
                                \cup (IF N THEN ids ELSE {})
         [] ev = "set_in"  -> first \cup files \cup (IF N THEN ids ELSE {})
         [] ev = "fork"    -> first \cup ids \cup files \cup {"do_bench", "fork"}
         [] ev = "build_argv" -> Events \ {"execvp"}
         [] ev = "execvp"  -> Events

\* the exit code the claim gives for each failing step
ClaimedCode(ev) ==
    CASE ev = "set_redirections" -> 6
      [] ev = "setpriority" -> 10
      [] ev \in {"setgid", "setuid"} -> 2
      [] ev = "set_out" -> 7
      [] ev = "set_in" -> 9
      [] ev = "fork" -> 8
      [] ev = "build_argv" -> 4
      [] ev = "execvp" -> 5

Steps == {"set_redirections", "setpriority", "setgid", "setuid", "set_out",
          "set_in", "fork", "build_argv", "execvp"}

\* C12: a step that fails ends the process it failed in (for set_redirections
\* once its failure has been reported) with the step's own exit code
\* (redirections 6, priority 10, identity 2, output 7, input 9,
\* fork 8, argv 4, exec 5, missing program 1), the codes are pairwise
\* distinct, no later step of the sequence has been or is performed, and no
\* process is the program; a failure in the forked child is also the exit
\* code of its supervisor.
C12_OwnExitCode ==
    /\ \A ev \in Steps \cap failed :
          /\ \E p \in Procs :
                /\ calls[p][ev] > 0
                /\ \/ pc[p] = "exited" /\ ret[p] = ClaimedCode(ev)
                   \/ ev = "set_redirections" /\ pc[p] = "redirected"
          /\ \A e \in Events \ NotAfter(ev) : Count(e) = 0
          /\ \A p \in Procs : pc[p] \notin {"program", "prog_exited", "prog_signaled"}
          /\ (pc["P"] = "exited" /\ "waitpid" \notin failed) => ret["P"] = ClaimedCode(ev)
    /\ Cardinality(Steps \cap failed) <= 1
    /\ (pc["P"] = "exited" /\ cmdline.prog = 0 /\ "OPTIONAL_ARGS" \notin flags
          /\ failed = {})
          => ret["P"] = 1 /\ NoLaunchStep
    /\ Cardinality({ClaimedCode(ev) : ev \in Steps} \cup {1}) = 9
    /\ {ERR_REDIR, ERR_PRIORITY, ERR_SETID, ERR_SETOUT, ERR_SETIN, ERR_BENCH,
        ERR_BUILDARGV, ERR_EXEC, ERR_PROG_MISSING}
          = {ClaimedCode(ev) : ev \in Steps} \cup {1}

\* execvp failed in the forked child: the child exited with 5 and so did
\* its supervisor
C12_Witness ==
    /\ "execvp" \in failed
    /\ pc["C"] = "exited" /\ ret["C"] = 5
    /\ pc["P"] = "exited" /\ ret["P"] = 5
    /\ "waitpid" \notin failed

\* a diagnostic of the launcher has been written
Diagnosed == \E w \in wrote : w.by = "P" /\ w.what = "diag"

SetOutCalls == {"set_out(open)", "set_out(dup2 stderr)", "set_out(dup2 stdout)"}

\* C13, as claimed: the launch ends with a code that tells the failing call
\* (ERR_REDIR when the dup of the backup failed and another code when the
\* dup2 onto the redirected slot failed; ERR_SETOUT when open failed and
\* another code when a dup2 onto stdout or stderr failed), and a standard
\* stream is left rewired at a failure only with a diagnostic.
C13_AsClaimed ==
    pc["P"] = "exited"
       => /\ redir = <<0 - 1>> => ret["P"] = ERR_REDIR
          /\ redir = <<0 - 2>> => ret["P"] \notin {0, ERR_REDIR}
          /\ "set_out(open)" \in failed => ret["P"] = ERR_SETOUT
          /\ failed \cap {"set_out(dup2 stderr)", "set_out(dup2 stdout)"} # {}
                => ret["P"] \notin {0, ERR_SETOUT}
          /\ failed \cap {"set_redirections", "set_out"} # {} => Diagnosed

\* C13, amended: a failure of set_redirections ends the launch with code 6
\* and one of set_out with code 7, whichever call failed (only the value
\* set_redirections returns, -1, -2 or -3, tells its failing call); a
\* diagnostic is written in each case; when dup or dup2 fails in
\* set_redirections, or open or the first dup2 in set_out, no standard stream
\* has been rewired by that operation; when the dup2 onto stdout fails in
\* set_out with -1 or -2, stderr already refers to the file.
C13_RedirFailure ==
    /\ "set_redirections" \in failed
          => /\ redir \in {<<0 - 1>>, <<0 - 2>>, <<0 - 3>>}
             /\ \/ pc["P"] = "redirected"
                \/ pc["P"] = "exited" /\ ret["P"] = 6 /\ Diagnosed
             /\ NoLaunchStep
             /\ redir \in {<<0 - 1>>, <<0 - 2>>}
                   => /\ fdt["P"][STDOUT_FILENO] = "out0"
                      /\ fdt["P"][STDERR_FILENO] = "err0"
             /\ redir = <<0 - 3>>
                   => fdt["P"][RedirectedFd(flags)] =
                         (IF "TO_STDERR" \in flags THEN "err0" ELSE "out0")
    /\ "set_out" \in failed
          => /\ pc["P"] = "exited" /\ ret["P"] = 7 /\ Diagnosed
             /\ Cardinality(failed \cap SetOutCalls) = 1
             /\ failed \cap {"set_out(open)", "set_out(dup2 stderr)"} # {}
                   => /\ fdt["P"][STDOUT_FILENO] # "outfile"
                      /\ fdt["P"][STDERR_FILENO] # "outfile"
             /\ ("set_out(dup2 stdout)" \in failed /\ BothToFile(flags))
                   => /\ fdt["P"][STDOUT_FILENO] # "outfile"
                      /\ fdt["P"][STDERR_FILENO] = "outfile"
    /\ (pc["P"] = "exited" /\ redir # <<>> /\ redir # <<0>>)
          => "set_redirections" \in failed

\* -1 with an output file: the dup2 onto stdout failed after stderr had been
\* rewired to the file; the diagnostic went to stdout, the launch ended with 7
C13_Witness ==
    /\ "set_out(dup2 stdout)" \in failed /\ "TO_STDOUT" \in flags
    /\ pc["P"] = "exited" /\ ret["P"] = ERR_SETOUT
    /\ fdt["P"][STDERR_FILENO] = "outfile"
    /\ [by |-> "P", dest |-> "out0", what |-> "diag"] \in wrote

\* C14: between the fork and the exit of the supervisor, every signal of
\* sigs delivered to the supervisor has been sent to the child, and the
\* supervisor is never terminated by such a signal while the child runs
\* without having been sent it.
C14_Forwarded ==
    /\ sig.got \subseteq sig.sent
    /\ ~(/\ pc["P"] = "killed"
         /\ Running("C")
         /\ ret["P"] \notin sig.sent)

\* SIGTERM came after the handler of SIGINT was installed and before its
\* own: the supervisor is dead, the program runs on and was sent nothing
C14_Witness ==
    /\ pc["P"] = "killed" /\ ret["P"] = SIGTERM
    /\ sig.handlers >= 1
    /\ pc["C"] = "program"
    /\ sig.sent = {}

\* the process p is past the start of the launch and has not exited
Alive(p) == pc[p] \notin {"none", "exited", "killed"}

\* C15: once set_out has opened the output file, stdout refers to the file,
\* and stderr refers to the file exactly when -1 or -2 was given (with
\* benchmarking and neither, stderr stays on the original stdout); once
\* set_in has opened the input file, stdin refers to it.  This holds in the
\* launcher, in its forked child and in the program.
C15_FileStreams ==
    \A p \in Procs :
        Alive(p)
           => /\ (outfile /\ Count("set_out") = 1 /\ "set_out" \notin failed)
                    => /\ fdt[p][STDOUT_FILENO] = "outfile"
                       /\ fdt[p][STDERR_FILENO] = "outfile" <=> ~NoMode
                       /\ (Bench(flags) /\ NoMode) => fdt[p][STDERR_FILENO] = "out0"
                       /\ (~Bench(flags) /\ NoMode) => fdt[p][STDERR_FILENO] = "err0"
              /\ (infile /\ Count("set_in") = 1 /\ "set_in" \notin failed)
                    => fdt[p][STDIN_FILENO] = "infile"

\* -t -o -i: the program reads the input file and writes to the output file,
\* its stderr is the original stdout
C15_Witness ==
    /\ Bench(flags) /\ NoMode /\ outfile /\ infile
    /\ pc["C"] = "program"
    /\ fdt["C"][STDIN_FILENO] = "infile"
    /\ fdt["C"][STDOUT_FILENO] = "outfile"
    /\ fdt["C"][STDERR_FILENO] = "out0"

\* C16: set_redirections is applied once; when it has redirected a stream,
\* every live launcher process holds exactly one backup handle: it is a
\* descriptor other than the redirected one and other than 0, 1, 2, it is the
\* only descriptor that refers to the destination the redirected stream had
\* before, and it stays so until the process exits (the supervisor after its
\* report) or becomes the program.  When no stream is redirected there is no
\* backup handle and no descriptor was acquired for one.
C16_OneBackup ==
    /\ Count("set_redirections") <= 1
    /\ \A p \in Procs :
          (redir = <<0>> /\ Alive(p))
             => LET b == ctx[p].alternatefile
                IN IF RedirectedFd(flags) >= 0
                   THEN /\ b \in Acquired
                        /\ b # RedirectedFd(flags)
                        /\ fdt[p][b] = BackupDest
                        /\ {f \in FDs : fdt[p][f] = BackupDest} = {b}
                        /\ fdt[p][RedirectedFd(flags)] # BackupDest
                   ELSE /\ b = 0 - 1
                        /\ \A f \in Acquired : fdt[p][f] \notin {"out0", "err0"}

\* -2 -t: the supervisor has collected the child and is about to write the
\* report on its backup of the original stdout
C16_Witness ==
    /\ "TO_STDERR" \in flags /\ Bench(flags)
    /\ pc["P"] = "collected"
    /\ ctx["P"].alternatefile \in Acquired
    /\ fdt["P"][ctx["P"].alternatefile] = "out0"
    /\ fdt["P"][STDOUT_FILENO] = "err0"

\* C17: the elapsed time do_bench reports is never negative, whatever the
\* two clock reads gave, a failed read included.
C17_NonNegative == clk.at = "stopped" => clk.ts1 >= 0

\* the first read succeeded and the second failed: the elapsed time reported
\* is minus the start timestamp
C17_Witness ==
    /\ clk.at = "stopped"
    /\ clk.ts0 > 0
    /\ clk.ts1 = 0 - clk.ts0

\* C18: with benchmarking and a fork that succeeded, the supervisor has
\* collected the status, written the report or exited only when the child
\* has ended: waitpid, blocking without option, is its only way there.
C18_AfterChild ==
    (pc["C"] # "none" /\ pc["P"] \in {"collected", "reported", "exited"})
        => Ended("C")

\* the supervisor has written the report of a child that has ended
C18_Witness ==
    /\ pc["P"] = "reported"
    /\ pc["C"] = "prog_exited"
    /\ \E w \in wrote : w.by = "P" /\ w.what \in {"report_posix", "report_ext"}

\* the calls main makes after line 669-676
AfterPriority == {"setgid", "setuid", "set_out", "set_in", "fork", "execvp"}

\* C19: a priority that was asked for is set before any identity switch, file
\* opening, fork or exec; when setpriority fails the launch ends with code 10
\* and none of these is ever done.
C19_PriorityFirst ==
    /\ ("HAVE_PRIORITY" \in flags /\ \E e \in AfterPriority : Count(e) > 0)
         => (calls["P"]["setpriority"] = 1 /\ "setpriority" \notin failed)
    /\ "setpriority" \in failed
         => /\ pc["P"] = "exited" /\ ret["P"] = ERR_PRIORITY
            /\ pc["C"] = "none"
            /\ \A e \in AfterPriority : Count(e) = 0

\* setpriority failed and the launcher left with code 10
C19_Witness ==
    /\ "setpriority" \in failed
    /\ pc["P"] = "exited"
    /\ ret["P"] = ERR_PRIORITY

\* an integer literal: decimal, 0-prefixed octal or 0x-prefixed hexadecimal
\* digits from the first character to the last
IsLiteral(s) ==
    /\ s # <<>>
    /\ CharAt(s, 1) # "-"
    /\ LET hex == /\ CharAt(s, 1) = "0" /\ CharAt(s, 2) = "x" /\ Len(s) > 2
           b == IF hex THEN 16 ELSE IF CharAt(s, 1) = "0" THEN 8 ELSE 10
       IN ScanDigits(s, IF hex THEN 3 ELSE 1, b) = Len(s) + 1

\* the number a literal denotes
LiteralValue(s) ==
    LET hex == CharAt(s, 1) = "0" /\ CharAt(s, 2) = "x"
        b == IF hex THEN 16 ELSE IF CharAt(s, 1) = "0" THEN 8 ELSE 10
    IN DigitsValue(s, IF hex THEN 3 ELSE 1, Len(s) + 1, b, 0)

\* C20: for -u, -g, -U and -G alike, an argument that is an integer literal
\* gives exactly its number without a name lookup, and a name lookup is made
\* if and only if the argument is no such literal.
C20_NumericFirst ==
    idr.at = "done" =>
        /\ IsLiteral(idr.arg) =>
              (idr.ok /\ idr.id = LiteralValue(idr.arg) /\ ~idr.lookup)
        /\ idr.lookup <=> ~IsLiteral(idr.arg)

\* -u with a literal that long holds and uid_t does not: no lookup, and an
\* id that is not the number
C20_Witness ==
    /\ idr.at = "done"
    /\ idr.opt = "u"
    /\ IsLiteral(idr.arg)
    /\ ~idr.lookup
    /\ idr.id # LiteralValue(idr.arg)

\* the delivered signals whose handler ran
HandledGot == IF pc["P"] = "killed" THEN sig.got \ {ret["P"]} ELSE sig.got

\* C21: the call of sig_handler by the supervisor records the pid of the
\* child and sends nothing; every signal whose handler ran was sent, as it
\* was received, to the recorded pid of the child and nothing else was sent
\* to anyone; the recorded pid stays the one of the child; and no handler is
\* installed, so none can run, before the pid is recorded.
C21_Handler ==
    /\ sig.reg => sig.pid = ForkedPid
    /\ ~sig.reg => (sig.pid = 0 /\ sig.kills = {} /\ Handled = {})
    /\ \A k \in sig.kills : k.pid = ForkedPid /\ k.sig \in HandledGot
    /\ \A s \in HandledGot : \E k \in sig.kills : k.pid = ForkedPid /\ k.sig = s

\* SIGTERM was delivered during the wait and sent to the child, which it
\* ended
C21_Witness ==
    /\ sig.pid = ForkedPid
    /\ sig.got = {SIGTERM}
    /\ sig.kills = {[pid |-> ForkedPid, sig |-> SIGTERM, reaped |-> FALSE]}
    /\ pc["C"] = "prog_signaled"

\* C22: once the forked child has ended, the supervisor comes to its exit
\* with the exit code translated from the way the child ended, whatever
\* signals of sigs were delivered to it since the fork.
C22_Terminates ==
    (pc["C"] # "none" /\ Ended("C"))
        ~> (pc["P"] = "exited" /\ ret["P"] = ChildStatusToExit(WaitStatus("C")))

\* the child has ended and the supervisor was terminated by a signal of sigs
C22_Witness ==
    /\ pc["P"] = "killed"
    /\ ret["P"] \in sig.got
    /\ pc["C"] = "prog_exited"

\* C23: ctx.outfd is a descriptor of the output file when -o/-O was given
\* and -1 otherwise, ctx.infd a descriptor of the input file when -i was
\* given and -1 otherwise; without any file, standard input is never closed
\* by clean_ctx.
C23_ValidFds ==
    \A p \in Procs :
        /\ ctx[p].outfd # -1 => (outfile /\ fdt[p][ctx[p].outfd] = "outfile")
        /\ ctx[p].infd # -1 => (infile /\ fdt[p][ctx[p].infd] = "infile")
        /\ (pc[p] # "none" /\ ~outfile /\ ~infile)
              => fdt[p][STDIN_FILENO] # Closed

\* no file was asked for, execvp failed, and the launcher left with its
\* standard input closed by clean_ctx
C23_Witness ==
    /\ ~outfile /\ ~infile
    /\ pc["P"] = "exited" /\ ret["P"] = ERR_EXEC
    /\ fdt["P"][STDIN_FILENO] = Closed

\* the -1 and -2 options among those the first pass saw
Seen12 == SelectSeq(seen, LAMBDA o : o \in {"1", "2"})

\* C24: after any options of the first pass, TO_STDOUT and TO_STDERR are not
\* both set; the one set is that of the last -1 or -2 seen, none without
\* them; and WARN_MOREREDIRS is set if and only if both -1 and -2 were seen.
C24_LastWins ==
    /\ ~({"TO_STDOUT", "TO_STDERR"} \subseteq flags)
    /\ "TO_STDOUT" \in flags
          <=> (Seen12 # <<>> /\ Seen12[Len(Seen12)] = "1")
    /\ "TO_STDERR" \in flags
          <=> (Seen12 # <<>> /\ Seen12[Len(Seen12)] = "2")
    /\ "WARN_MOREREDIRS" \in flags
          <=> (\E i, j \in 1..Len(seen) : seen[i] = "1" /\ seen[j] = "2")

\* -1, then -2, then -1 again: stdout wins and the warning flag is set
C24_Witness ==
    /\ Seen12 = <<"1", "2", "1">>
    /\ flags \cap {"TO_STDOUT", "TO_STDERR", "WARN_MOREREDIRS"}
          = {"TO_STDOUT", "WARN_MOREREDIRS"}

\* C28: build_argv returns the program and its arguments in their order
\* followed by one NULL, and the pointers it writes lie inside the block it
\* allocated, which is at least as large as argc + 1 pointers.
C28_VectorInBlock ==
    av.at = "built" =>
        /\ av.vec = Append(av.argv, "NULL")
        /\ av.used <= av.alloc
        /\ av.alloc >= (Len(av.argv) + 1) * av.ptr

\* one word and pointers of 8 bytes: 16 bytes written to a block of 2
C28_Witness ==
    /\ av.at = "built"
    /\ Len(av.argv) = 1
    /\ av.alloc = 2
    /\ av.used = 16

\* a timing report written by the supervisor
Reports == {w \in wrote : w.by = "P" /\ w.what \in {"report_posix", "report_ext"}}

\* C25: a forked child that leaves the launch sequence failed at build_argv
\* (code 4) or at execvp (code 5) and exits with that code after clean_ctx;
\* the supervisor that waited for it has written the report at its exit and
\* exits with the code of the child, never with 0.
C25_ChildFailure ==
    pc["C"] = "exited" =>
        /\ ret["C"] \in {ERR_BUILDARGV, ERR_EXEC}
        /\ ret["C"] = ERR_BUILDARGV <=> "build_argv" \in failed
        /\ ret["C"] = ERR_EXEC <=> "execvp" \in failed
        /\ ctx["C"] = [alternatefile |-> -1, outfd |-> -1, infd |-> -1]
        /\ (pc["P"] = "exited" /\ "waitpid" \notin failed)
              => (ret["P"] = ret["C"] /\ ret["P"] # 0 /\ Reports # {})

\* execvp failed in the child and the supervisor left with code 5 after the
\* report
C25_Witness ==
    /\ pc["C"] = "exited" /\ ret["C"] = ERR_EXEC
    /\ pc["P"] = "exited" /\ ret["P"] = ERR_EXEC
    /\ "waitpid" \notin failed
    /\ Reports # {}

\* the supervisor has exited on the wait status of a child ended by a signal
SignalDeath == pc["P"] = "exited" /\ status.kind = "signaled"

\* C26 as stated: the status observed for a child killed by a signal is not
\* 0 and is the status observed for no child that exits normally with a code
\* of 0..255.
C26_AsClaimed ==
    SignalDeath =>
        /\ Observed(ret["P"]) # 0
        /\ \A c \in 0..255 :
              Observed(ChildStatusToExit([kind |-> "exited", val |-> c]))
                  # Observed(ret["P"])

\* C26: a child that exits normally with code c is observed as c and a child
\* killed by signal N as 156 - N, which is never 0 and is also the status
\* observed for a child that exits normally with code 156 - N.
C26_Observed ==
    /\ (pc["P"] = "exited" /\ status.kind = "exited")
          => Observed(ret["P"]) = status.val
    /\ SignalDeath =>
          /\ Observed(ret["P"]) = 156 - status.val
          /\ Observed(ret["P"]) # 0
          /\ Observed(ChildStatusToExit([kind |-> "exited",
                                         val |-> 156 - status.val]))
                = Observed(ret["P"])

\* the program was killed by a signal and the supervisor has exited
C26_Witness ==
    /\ SignalDeath
    /\ pc["C"] = "prog_signaled"
    /\ status.val = ret["C"]
    /\ Observed(ret["P"]) = 156 - ret["C"]

\* C27: the supervisor calls kill on the recorded pid only while the child
\* has not been reaped: a signal of sigs delivered after waitpid has returned
\* does not make it call kill.
C27_NoKillAfterReap == \A k \in sig.kills : ~k.reaped

\* SIGTERM was delivered after the report and sent to the pid of the child
\* that waitpid had already reaped
C27_Witness ==
    /\ pc["P"] = "reported"
    /\ "waitpid" \notin failed
    /\ pc["C"] = "prog_exited"
    /\ [pid |-> ForkedPid, sig |-> SIGTERM, reaped |-> TRUE] \in sig.kills

====
